---- MODULE Spec2Model ----
(***************************************************************************)
(* Model of gen_hotkeys.py: the hotkey-profile generator.                  *)
(*                                                                         *)
(* A Python str is modelled as a sequence of one-character strings, so     *)
(* that lower(), upper(), isalpha(), split(), join() and the `in`          *)
(* substring test are computed character by character as Python does.     *)
(* Python's False, None and the empty list are all modelled by the empty   *)
(* sequence: the code only ever tests them for truthiness.  Python list    *)
(* indices are 0-based, the sequences here are 1-based.                    *)
(***************************************************************************)
EXTENDS Naturals, Sequences, FiniteSets

VARIABLES
    pc,            \* position of main() in the run
    stdin,         \* the user's answers to the prompts of main()
    data_dir,      \* os.listdir of data/ : files with their contents
    units_dir,     \* os.listdir of data/units-buildings/ : files with lines
    race,          \* self.race
    custom_grid,   \* the grid returned by get_user_grid()
    prefix,        \* self.prefix
    json_file,     \* the file find_file(["raw","json"]) located
    raw,           \* self.raw
    units,         \* self.protoss / self.terran / self.zerg
    hotkeys_race,  \* the value WhichRace.which gave for each raw pairing
    race_hotkeys,  \* self.race_hotkeys
    grid_key,      \* self.grid_key
    ret_keys,      \* the list _hotkeys_output returned
    profile_name,  \* self.profile_name
    output_file,   \* the .SC2Hotkeys file: whether it exists, and its lines
    err            \* the exception that aborted the run, if any

vars == <<pc, stdin, data_dir, units_dir, race, custom_grid, prefix, json_file,
          raw, units, hotkeys_race, race_hotkeys, grid_key, ret_keys,
          profile_name, output_file, err>>

----------------------------------------------------------------------------
(* Characters and the str methods the program uses.                        *)

UC == <<"A","B","C","D","E","F","G","H","I","J","K","L","M",
        "N","O","P","Q","R","S","T","U","V","W","X","Y","Z">>
LC == <<"a","b","c","d","e","f","g","h","i","j","k","l","m",
        "n","o","p","q","r","s","t","u","v","w","x","y","z">>

False == <<>>
None == <<>>

isalpha(c) == \E i \in 1..Len(UC) : c = UC[i] \/ c = LC[i]

lower_char(c) ==
    IF \E i \in 1..Len(UC) : c = UC[i]
    THEN LC[CHOOSE i \in 1..Len(UC) : c = UC[i]] ELSE c

upper_char(c) ==
    IF \E i \in 1..Len(LC) : c = LC[i]
    THEN UC[CHOOSE i \in 1..Len(LC) : c = LC[i]] ELSE c

lower(s) == [i \in 1..Len(s) |-> lower_char(s[i])]
upper(s) == [i \in 1..Len(s) |-> upper_char(s[i])]

\* needle in hay
str_in(needle, hay) ==
    \E k \in 0..Len(hay) :
        /\ k + Len(needle) <= Len(hay)
        /\ \A j \in 1..Len(needle) : hay[k + j] = needle[j]

\* s.split(sep) for a one-character sep: always at least one piece
RECURSIVE split_from(_, _, _, _)
split_from(s, sep, i, piece) ==
    IF i > Len(s) THEN <<piece>>
    ELSE IF s[i] = sep THEN <<piece>> \o split_from(s, sep, i + 1, <<>>)
    ELSE split_from(s, sep, i + 1, Append(piece, s[i]))

split(s, sep) == split_from(s, sep, 1, <<>>)

\* "".join(pieces)
RECURSIVE join(_)
join(pieces) ==
    IF pieces = <<>> THEN <<>> ELSE Head(pieces) \o join(Tail(pieces))

\* pieces[:-1] and pieces[-1]
but_last(pieces) == SubSeq(pieces, 1, Len(pieces) - 1)
last(pieces) == pieces[Len(pieces)]

\* x in lst, and lst.index(x) (1-based)
list_in(x, lst) == \E i \in 1..Len(lst) : lst[i] = x
index(lst, x) == CHOOSE i \in 1..Len(lst) :
                    lst[i] = x /\ \A j \in 1..(i - 1) : lst[j] # x

----------------------------------------------------------------------------
(* The functions of gen_hotkeys.py.                                        *)

\* find_file: the inner loop over keywords for one directory entry fi.
\* TRUE when the loop reaches `return`, FALSE when it runs off the end.
RECURSIVE find_file_keywords(_, _, _)
find_file_keywords(keywords, k, fi) ==
    IF k > Len(keywords) THEN FALSE
    ELSE IF ~str_in(keywords[k], fi) THEN find_file_keywords(keywords, k + 1, fi)
    ELSE TRUE

\* find_file: the outer loop over os.listdir; None when it runs off the end.
RECURSIVE find_file_from(_, _, _)
find_file_from(keywords, listing, i) ==
    IF i > Len(listing) THEN None
    ELSE IF find_file_keywords(keywords, 1, listing[i].name) THEN listing[i].name
    ELSE find_file_from(keywords, listing, i + 1)

find_file(keywords, listing) == find_file_from(keywords, listing, 1)

\* open(path): the directory entry of that name
open_file(listing, path) ==
    listing[CHOOSE i \in 1..Len(listing) : listing[i].name = path]

\* the names and the zip order of WhichRace.which
s_protoss == <<"p","r","o","t","o","s","s">>
s_terran  == <<"t","e","r","r","a","n">>
s_zerg    == <<"z","e","r","g">>
s_all     == <<"a","l","l">>

race_names == <<s_protoss, s_terran, s_zerg>>
race_lists(u) == <<u.protoss, u.terran, u.zerg>>

\* the name test written as an equality
name_in_l_equal(name, l) == name = l

\* `if name in l`
name_in_l(name, l) == str_in(name, l)

\* the multi-match test with the comparison inverted
multi_match_same(cur, name) == cur # False /\ cur = name

\* `if cur and cur != name`
multi_match(cur, name) == cur # False /\ cur # name

\* the part of a pairing that which() scans, cut into its '/' parts
which_units(hotkey) == split(join(but_last(split(lower(hotkey), "="))), "/")

\* the loops of which(): part p, race r, keyword k (k = 0: the name test)
RECURSIVE which_scan(_, _, _, _, _, _)
which_scan(parts, u, p, r, k, cur) ==
    IF p > Len(parts) THEN (IF cur = False THEN s_all ELSE cur)
    ELSE IF r > Len(race_names) THEN which_scan(parts, u, p + 1, 1, 0, cur)
    ELSE LET name == race_names[r]
             race_units == race_lists(u)[r]
             l == parts[p]
         IN  IF k = 0
             THEN IF name_in_l(name, l) THEN name
                  ELSE which_scan(parts, u, p, r, 1, cur)
             ELSE IF k > Len(race_units)
             THEN which_scan(parts, u, p, r + 1, 0, cur)
             ELSE IF str_in(race_units[k], l)
             THEN IF multi_match(cur, name) THEN s_all
                  ELSE which_scan(parts, u, p, r, k + 1, name)
             ELSE which_scan(parts, u, p, r, k + 1, cur)

which(hotkey, u) == which_scan(which_units(hotkey), u, 1, 1, 0, False)

\* _read_units_txt: one line cleaned (alphabetic characters only, lowercased)
cleaned(line) == lower(SelectSeq(line, isalpha))

\* _read_units_txt: the keywords of one file, empty lines dropped
RECURSIVE read_lines(_)
read_lines(lines) ==
    IF lines = <<>> THEN <<>>
    ELSE IF cleaned(Head(lines)) # <<>>
         THEN <<cleaned(Head(lines))>> \o read_lines(Tail(lines))
         ELSE read_lines(Tail(lines))

\* the filter without the shared pairings
keep_hotkey_race_only(hr, r) == hr = lower(r)

\* `hotkeys_race == "all" or hotkeys_race == self.race.lower()`
keep_hotkey(hr, r) == hr = s_all \/ hr = lower(r)

\* _filter_race, given the classification of every raw pairing
RECURSIVE filter_from(_, _, _, _)
filter_from(rw, hr, r, i) ==
    IF i > Len(rw) THEN <<>>
    ELSE IF keep_hotkey(hr[i], r) THEN <<rw[i]>> \o filter_from(rw, hr, r, i + 1)
    ELSE filter_from(rw, hr, r, i + 1)

_filter_race(rw, hr, r) == filter_from(rw, hr, r, 1)

reference_grid == << <<"q">>, <<"w">>, <<"e">>, <<"r">>, <<"t">>,
                     <<"a">>, <<"s">>, <<"d">>, <<"f">>, <<"g">>,
                     <<"y">>, <<"x">>, <<"c">>, <<"v">>, <<"b">> >>

\* the default grid written as a copy of the reference grid
default_grid_copied == reference_grid

default_grid == << <<"q">>, <<"w">>, <<"e">>, <<"r">>, <<"t">>,
                   <<"a">>, <<"s">>, <<"d">>, <<"f">>, <<"g">>,
                   <<"z">>, <<"x">>, <<"c">>, <<"v">>, <<"b">> >>

\* `custom_grid or self.default_grid`
grid_or_default(cg) == IF cg # False THEN cg ELSE default_grid

curr_key(hotkey) == last(split(hotkey, "="))
unit(hotkey) == but_last(split(hotkey, "="))

\* the lookup that leaves the key where it was
grid_lookup_same_key(gk, key) == lower(key)

\* `self.grid_key[self.reference_grid.index(curr_key.lower())]`
grid_lookup(gk, key) == gk[index(reference_grid, lower(key))]

\* `self.prefix + new_key.upper()`
new_key(gk, pre, key) == pre \o upper(grid_lookup(gk, key))

\* the grid test without lower()
in_reference_grid_cased(key) == list_in(key, reference_grid)

\* `if curr_key.lower() in self.reference_grid`
in_reference_grid(key) == list_in(lower(key), reference_grid)

\* _hotkeys_output: the loop from pairing i on, ret the list so far.
\* An index past the end of grid_key raises IndexError and the list is lost.
RECURSIVE hotkeys_output_from(_, _, _, _, _)
hotkeys_output_from(hks, gk, pre, i, ret) ==
    IF i > Len(hks) THEN [raised |-> FALSE, keys |-> ret]
    ELSE IF in_reference_grid(curr_key(hks[i]))
    THEN IF index(reference_grid, lower(curr_key(hks[i]))) > Len(gk)
         THEN [raised |-> TRUE, keys |-> <<>>]
         ELSE hotkeys_output_from(hks, gk, pre, i + 1,
                  Append(ret, join(unit(hks[i])) \o <<"=">>
                              \o new_key(gk, pre, curr_key(hks[i]))))
    ELSE hotkeys_output_from(hks, gk, pre, i + 1, ret)

_hotkeys_output(hks, gk, pre) == hotkeys_output_from(hks, gk, pre, 1, <<>>)

\* get_user_grid: the three typed lines, when the answer contains "y"
get_user_grid(in) ==
    IF str_in(<<"y">>, in.grid_answer)
    THEN split(in.first, " ") \o split(in.second, " ") \o split(in.third, " ")
    ELSE False

\* main: the prefix, when the lowercased answer contains "y"
main_prefix(in) ==
    IF str_in(<<"y">>, lower(in.prefix_answer)) THEN in.prefix \o <<"+">>
    ELSE <<>>

\* the text gen_hotkey_file writes first, as lines
header == << <<"[","S","e","t","t","i","n","g","s","]">>,
             <<>>,
             <<"[","H","o","t","k","e","y","s","]">>,
             <<"C","a","m","e","r","a","C","e","n","t","e","r","=">>,
             <<>>,
             <<"[","C","o","m","m","a","n","d","s","]">> >>

----------------------------------------------------------------------------
(* The text the runs are given: pairings, file names, lines of the unit    *)
(* files, and what the user types.                                         *)

hk_probe == <<"P","r","o","b","e","=","Q">>
hk_scvprobe == <<"S","C","V","P","r","o","b","e","=","A">>
hk_drone_scv == <<"D","r","o","n","e","/","S","C","V","=","S">>
hk_terran_probe == <<"T","e","r","r","a","n","/","P","r","o","b","e","=","D">>
hk_probe_scv_zerg == <<"P","r","o","b","e","/","S","C","V","/","Z","e","r","g","=","F">>
hk_probescvzerg == <<"P","r","o","b","e","S","C","V","Z","e","r","g","=","G">>
hk_probeterran == <<"P","r","o","b","e","T","e","r","r","a","n","=","X">>
hk_build == <<"B","u","i","l","d","=","a">>
hk_drone_1 == <<"D","r","o","n","e","=","1">>
hk_q == <<"q">>
hk_move_y == <<"M","o","v","e","=","Y">>
hk_attack_1 == <<"A","t","t","a","c","k","=","1">>
hk_a_b_b == <<"A","=","B","=","b">>
hk_stop == <<"S","t","o","p">>
f_raw_json == <<"r","a","w",".","j","s","o","n">>
f_readme == <<"r","e","a","d","m","e",".","m","d">>
f_raw_txt == <<"r","a","w",".","t","x","t">>
f_grid_json == <<"g","r","i","d",".","j","s","o","n">>
f_protoss == <<"p","r","o","t","o","s","s",".","t","x","t">>
f_terran == <<"t","e","r","r","a","n",".","t","x","t">>
f_zerg == <<"z","e","r","g",".","t","x","t">>
ln_probe == <<"P","r","o","b","e","\n">>
ln_empty == <<"\n">>
ln_scv == <<"S",".","C",".","V",".","\n">>
ln_drone == <<"D","r","o","n","e"," ","2","\n">>
ln_build == <<"B","u","i","l","d","\n">>
in_protoss == <<"P","r","o","t","o","s","s">>
in_terran == <<"t","e","r","r","a","n">>
in_zerg == <<"z","e","r","g">>
in_y == <<"y">>
in_Y == <<"Y">>
in_n == <<"n">>
in_qwert == <<"q"," ","w"," ","e"," ","r"," ","t">>
in_qxcvb == <<"q"," ","x"," ","c"," ","v"," ","b">>
in_qwe == <<"q"," ","w"," ","e">>
in_wqert == <<"w"," ","q"," ","e"," ","r"," ","t">>
in_123456 == <<"1"," ","2"," ","3"," ","4"," ","5"," ","6">>
in_asdfg == <<"a"," ","s"," ","d"," ","f"," ","g">>
in_zxcvb == <<"z"," ","x"," ","c"," ","v"," ","b">>
in_ZXCVB == <<"Z"," ","X"," ","C"," ","V"," ","B">>
in_shift == <<"S","h","i","f","t">>
in_name == <<"g","r","i","d">>
s_raw == <<"r","a","w">>
s_json == <<"j","s","o","n">>
s_ext == <<".","S","C","2","H","o","t","k","e","y","s">>

\* the longest list of raw pairings a run is given
MaxRaw == 2

SeqsUpTo(S, n) == UNION {[1..k -> S] : k \in 0..n}

\* data/units-buildings/ : one file per race
UnitsA == << [name |-> f_protoss, lines |-> <<ln_probe, ln_empty>>],
             [name |-> f_terran,  lines |-> <<ln_scv>>],
             [name |-> f_zerg,    lines |-> <<ln_drone>>] >>
UnitsB == << [name |-> f_zerg,    lines |-> <<>>],
             [name |-> f_terran,  lines |-> <<>>],
             [name |-> f_protoss, lines |-> <<ln_probe>>] >>
UnitsC == << [name |-> f_protoss, lines |-> <<ln_probe, ln_build>>],
             [name |-> f_terran,  lines |-> <<ln_build, ln_scv>>],
             [name |-> f_zerg,    lines |-> <<ln_drone>>] >>
UnitsNoZerg == << [name |-> f_protoss, lines |-> <<ln_probe>>],
                  [name |-> f_terran,  lines |-> <<ln_scv>>] >>

\* data/ : the json file of raw pairings, alone or among other files
json_entry(rw) == [name |-> f_raw_json, valid |-> TRUE, raw |-> rw]
readme_entry == [name |-> f_readme, valid |-> FALSE, raw |-> <<>>]
raw_txt_entry == [name |-> f_raw_txt, valid |-> FALSE, raw |-> <<>>]
grid_json_entry == [name |-> f_grid_json, valid |-> TRUE, raw |-> <<hk_move_y>>]

DataDirs(rw) == { <<json_entry(rw)>>,
                  <<readme_entry, json_entry(rw)>>,
                  <<raw_txt_entry, json_entry(rw)>>,
                  <<grid_json_entry, json_entry(rw)>>,
                  <<json_entry(rw), raw_txt_entry>>,
                  <<readme_entry>> }

ClassifyPairings == { hk_probe, hk_scvprobe, hk_drone_scv, hk_terran_probe,
                      hk_probe_scv_zerg, hk_probescvzerg, hk_probeterran, hk_build }

RemapPairings == { hk_probe, hk_build, hk_move_y, hk_attack_1, hk_q, hk_a_b_b }

NoGrid == [grid_answer |-> in_n, first |-> <<>>, second |-> <<>>, third |-> <<>>]
NoPrefix == [prefix_answer |-> in_n, prefix |-> <<>>]

Grid(answer, first, third) ==
    [grid_answer |-> answer, first |-> first, second |-> in_asdfg, third |-> third]

GridAnswers == { NoGrid,
                 Grid(in_Y, in_qwe, in_zxcvb),
                 Grid(in_y, in_qwert, in_ZXCVB),
                 Grid(in_y, in_wqert, in_qxcvb),
                 Grid(in_y, in_qwe, in_zxcvb),
                 Grid(in_y, in_123456, in_zxcvb) }

PrefixAnswers == {NoPrefix, [prefix_answer |-> in_Y, prefix |-> in_shift]}

Stdin(r, g, p) ==
    [race |-> r, grid_answer |-> g.grid_answer, first |-> g.first,
     second |-> g.second, third |-> g.third,
     prefix_answer |-> p.prefix_answer, prefix |-> p.prefix, name |-> in_name]

----------------------------------------------------------------------------
(* The run of main().                                                      *)

Start ==
    /\ pc = "main"
    /\ race = <<>> /\ custom_grid = <<>> /\ prefix = <<>> /\ json_file = <<>>
    /\ raw = <<>> /\ units = [protoss |-> <<>>, zerg |-> <<>>, terran |-> <<>>]
    /\ hotkeys_race = <<>> /\ race_hotkeys = <<>> /\ grid_key = <<>>
    /\ ret_keys = <<>> /\ profile_name = <<>>
    /\ output_file = [exists |-> FALSE, name |-> <<>>, lines |-> <<>>]
    /\ err = "none"

\* runs that vary the pairings, the unit files and the race
InitClassify ==
    /\ \E r \in {in_protoss, in_terran} : stdin = Stdin(r, NoGrid, NoPrefix)
    /\ \E rw \in SeqsUpTo(ClassifyPairings, MaxRaw) : data_dir = <<json_entry(rw)>>
    /\ units_dir \in {UnitsA, UnitsB, UnitsC}

\* runs that vary the pairings' keys, the grid and the prefix
InitRemap ==
    /\ \E g \in GridAnswers, p \in PrefixAnswers : stdin = Stdin(in_protoss, g, p)
    /\ \E rw \in SeqsUpTo(RemapPairings, MaxRaw) : data_dir = <<json_entry(rw)>>
    /\ units_dir = UnitsB

\* runs that vary the files found in the two directories
InitFiles ==
    /\ \E g \in GridAnswers : stdin = Stdin(in_zerg, g, NoPrefix)
    /\ data_dir \in DataDirs(<<hk_drone_1, hk_a_b_b, hk_stop>>)
    /\ units_dir \in {UnitsA, UnitsNoZerg}

Init == Start /\ (InitClassify \/ InitRemap \/ InitFiles)

InitC == Start /\ InitClassify

InitR == Start /\ InitRemap

\* main, lines 247-254: the prompts
Main ==
    /\ pc = "main"
    /\ race' = lower(stdin.race)
    /\ custom_grid' = get_user_grid(stdin)
    /\ prefix' = main_prefix(stdin)
    /\ profile_name' = stdin.name
    /\ pc' = "read_json"
    /\ UNCHANGED <<stdin, data_dir, units_dir, json_file, raw, units, hotkeys_race,
                   race_hotkeys, grid_key, ret_keys, output_file, err>>

\* GridHotkeys.__init__ line 152: self.raw = self._read_json()
\* open(None) raises TypeError; a file that is not the json raises in json.load
ReadJson ==
    /\ pc = "read_json"
    /\ json_file' = find_file(<<s_raw, s_json>>, data_dir)
    /\ IF json_file' = None
       THEN pc' = "error" /\ err' = "TypeError" /\ raw' = raw
       ELSE IF ~open_file(data_dir, json_file').valid
       THEN pc' = "error" /\ err' = "JSONDecodeError" /\ raw' = raw
       ELSE pc' = "read_units" /\ err' = err
            /\ raw' = open_file(data_dir, json_file').raw
    /\ UNCHANGED <<stdin, data_dir, units_dir, race, custom_grid, prefix, units,
                   hotkeys_race, race_hotkeys, grid_key, ret_keys, profile_name,
                   output_file>>

\* _read_units_txt for one race
_read_units_txt(name) == read_lines(open_file(units_dir, find_file(<<name>>, units_dir)).lines)

\* GridHotkeys.__init__ line 153: self.find_race = WhichRace()
ReadUnitsTxt ==
    /\ pc = "read_units"
    /\ IF \E name \in {s_protoss, s_zerg, s_terran} : find_file(<<name>>, units_dir) = None
       THEN pc' = "error" /\ err' = "TypeError" /\ units' = units
       ELSE pc' = "filter_race" /\ err' = err
            /\ units' = [protoss |-> _read_units_txt(s_protoss),
                         zerg    |-> _read_units_txt(s_zerg),
                         terran  |-> _read_units_txt(s_terran)]
    /\ UNCHANGED <<stdin, data_dir, units_dir, race, custom_grid, prefix, json_file,
                   raw, hotkeys_race, race_hotkeys, grid_key, ret_keys, profile_name,
                   output_file>>

\* GridHotkeys.__init__ line 154: self.race_hotkeys = self._filter_race()
FilterRace ==
    /\ pc = "filter_race"
    /\ hotkeys_race' = [i \in 1..Len(raw) |-> which(raw[i], units)]
    /\ race_hotkeys' = _filter_race(raw, hotkeys_race', race)
    /\ pc' = "init_grid"
    /\ UNCHANGED <<stdin, data_dir, units_dir, race, custom_grid, prefix, json_file,
                   raw, units, grid_key, ret_keys, profile_name, output_file, err>>

\* GridHotkeys.__init__ lines 156-168: the grids
InitGrid ==
    /\ pc = "init_grid"
    /\ grid_key' = grid_or_default(custom_grid)
    /\ pc' = "open"
    /\ UNCHANGED <<stdin, data_dir, units_dir, race, custom_grid, prefix, json_file,
                   raw, units, hotkeys_race, race_hotkeys, ret_keys, profile_name,
                   output_file, err>>

\* gen_hotkey_file line 200: open(..., "w") creates or truncates the file
OpenOutput ==
    /\ pc = "open"
    /\ output_file' = [exists |-> TRUE, name |-> profile_name \o s_ext, lines |-> <<>>]
    /\ pc' = "write_header"
    /\ UNCHANGED <<stdin, data_dir, units_dir, race, custom_grid, prefix, json_file,
                   raw, units, hotkeys_race, race_hotkeys, grid_key, ret_keys,
                   profile_name, err>>

\* gen_hotkey_file lines 201-202
WriteHeader ==
    /\ pc = "write_header"
    /\ output_file' = [output_file EXCEPT !.lines = @ \o header]
    /\ pc' = "hotkeys_output"
    /\ UNCHANGED <<stdin, data_dir, units_dir, race, custom_grid, prefix, json_file,
                   raw, units, hotkeys_race, race_hotkeys, grid_key, ret_keys,
                   profile_name, err>>

\* gen_hotkey_file line 203: the call self._hotkeys_output()
HotkeysOutput ==
    /\ pc = "hotkeys_output"
    /\ LET r == _hotkeys_output(race_hotkeys, grid_key, prefix)
       IN  IF r.raised
           THEN pc' = "error" /\ err' = "IndexError" /\ ret_keys' = ret_keys
           ELSE pc' = "write_lines" /\ err' = err /\ ret_keys' = r.keys
    /\ UNCHANGED <<stdin, data_dir, units_dir, race, custom_grid, prefix, json_file,
                   raw, units, hotkeys_race, race_hotkeys, grid_key, profile_name,
                   output_file>>

\* gen_hotkey_file lines 203-205: one line per remapped pairing, then close
WriteLines ==
    /\ pc = "write_lines"
    /\ output_file' = [output_file EXCEPT !.lines = @ \o ret_keys]
    /\ pc' = "done"
    /\ UNCHANGED <<stdin, data_dir, units_dir, race, custom_grid, prefix, json_file,
                   raw, units, hotkeys_race, race_hotkeys, grid_key, ret_keys,
                   profile_name, err>>

Next ==
    \/ Main
    \/ ReadJson
    \/ ReadUnitsTxt
    \/ FilterRace
    \/ InitGrid
    \/ OpenOutput
    \/ WriteHeader
    \/ HotkeysOutput
    \/ WriteLines

Spec == Init /\ [][Next]_vars

\* the runs that vary the pairings, the unit files and the race
SpecClassify == InitC /\ [][Next]_vars

\* the runs that vary the pairings' keys, the grid and the prefix
SpecRemap == InitR /\ [][Next]_vars

----------------------------------------------------------------------------
(* Vocabulary of the properties.                                           *)

\* _filter_race has returned
Filtered == pc \in {"init_grid", "open", "write_header", "hotkeys_output",
                    "write_lines", "done"}
            \/ (pc = "error" /\ err = "IndexError")

\* _hotkeys_output has returned its list
Returned == pc \in {"write_lines", "done"}

EqPositions(h) == {i \in 1..Len(h) : h[i] = "="}
HasEq(h) == EqPositions(h) # {}
OneEq(h) == Cardinality(EqPositions(h)) = 1
LastEq(h) == CHOOSE i \in EqPositions(h) : \A j \in EqPositions(h) : j <= i

\* label and key of a pairing "label=key", the label with case ignored
LabelOf(h) == IF HasEq(h) THEN lower(SubSeq(h, 1, LastEq(h) - 1)) ELSE <<>>
KeyOf(h) == IF HasEq(h) THEN SubSeq(h, LastEq(h) + 1, Len(h)) ELSE h
PartsOf(h) == split(LabelOf(h), "/")

\* the label as written
LabelOfCase(h) == IF HasEq(h) THEN SubSeq(h, 1, LastEq(h) - 1) ELSE <<>>

Factions == 1..Len(race_names)

\* the factions whose literal name occurs in the label lab
NamesIn(lab) == {f \in Factions : str_in(race_names[f], lab)}

\* faction f has a keyword occurring in part j of parts
KeywordHit(parts, f, j) ==
    \E k \in 1..Len(race_lists(units)[f]) : str_in(race_lists(units)[f][k], parts[j])

\* the factions with a keyword occurring in some part
KeywordFactions(parts) ==
    {f \in Factions : \E j \in 1..Len(parts) : KeywordHit(parts, f, j)}

\* the first part holding the name of faction f
NamePart(parts, f) ==
    CHOOSE j \in 1..Len(parts) :
        /\ str_in(race_names[f], parts[j])
        /\ \A i \in 1..(j - 1) : ~str_in(race_names[f], parts[i])

\* the factions with a keyword occurring in a part before part p, or in part p
\* when the faction comes before f in the order protoss, terran, zerg
KeywordFactionsBefore(parts, p, f) ==
    {g \in Factions : \E j \in 1..p : KeywordHit(parts, g, j) /\ (j < p \/ g < f)}

\* the number of distinct factions with a keyword occurring before the name
\* test of f is reached
HitsBeforeName(h, f) ==
    LET parts == PartsOf(h)
        p == NamePart(parts, f)
    IN  Cardinality(KeywordFactionsBefore(parts, p, f))

\* the pairing has one '=' and the name of faction f, and of no other, in its label
OnlyName(h, f) == OneEq(h) /\ NamesIn(LabelOf(h)) = {f}

\* the pairing has one '=' and no faction name in its label
NoName(h) == OneEq(h) /\ NamesIn(LabelOf(h)) = {}

----------------------------------------------------------------------------
(* WhichRace.which and GridHotkeys._filter_race                            *)

\* C1 as stated: a pairing whose label holds the literal name of exactly one
\* faction is classified to that faction, whatever keywords occur in it.
C1_NameAlwaysWins ==
    Filtered =>
        \A i \in 1..Len(raw) : \A f \in Factions :
            OnlyName(raw[i], f) => hotkeys_race[i] = race_names[f]

\* C1 amended: a pairing whose label holds the literal name of exactly one
\* faction F is classified to F, unless keywords of two distinct factions
\* occur before the name test of F is reached (in an earlier part, or in the
\* same part for a faction earlier in the order protoss, terran, zerg); it is
\* then classified to "all".
C1_NameWinsUnlessMultiMatchFirst ==
    Filtered =>
        \A i \in 1..Len(raw) : \A f \in Factions :
            OnlyName(raw[i], f) =>
                hotkeys_race[i] = IF HitsBeforeName(raw[i], f) <= 1
                                  THEN race_names[f] ELSE s_all

\* a label with a faction name and one keyword hit before it classified to the
\* faction, next to a label with two hits before the name classified to "all"
C1_Witness ==
    /\ Filtered
    /\ \E i \in 1..Len(raw) : \E f \in Factions :
        /\ OnlyName(raw[i], f)
        /\ HitsBeforeName(raw[i], f) = 1
        /\ hotkeys_race[i] = race_names[f]
    /\ \E i \in 1..Len(raw) : \E f \in Factions :
        /\ OnlyName(raw[i], f)
        /\ HitsBeforeName(raw[i], f) >= 2
        /\ hotkeys_race[i] = s_all

\* C2: a pairing whose label holds no faction name and keywords of at least
\* two distinct factions, in one part or in different parts and in any order,
\* is classified to "all".
C2_TwoFactionsGiveAll ==
    Filtered =>
        \A i \in 1..Len(raw) :
            (NoName(raw[i]) /\ Cardinality(KeywordFactions(PartsOf(raw[i]))) >= 2)
                => hotkeys_race[i] = s_all

\* two keywords of distinct factions in one part, and in two parts with the
\* later faction of the order first
C2_Witness ==
    /\ Filtered
    /\ \E i \in 1..Len(raw) :
        LET parts == PartsOf(raw[i])
        IN  /\ NoName(raw[i])
            /\ Len(parts) = 1
            /\ Cardinality(KeywordFactions(parts)) >= 2
    /\ \E i \in 1..Len(raw) : \E f, g \in Factions :
        LET parts == PartsOf(raw[i])
        IN  /\ NoName(raw[i])
            /\ Len(parts) = 2
            /\ g < f
            /\ KeywordHit(parts, f, 1) /\ ~KeywordHit(parts, g, 1)
            /\ KeywordHit(parts, g, 2) /\ ~KeywordHit(parts, f, 2)

\* position i of raw holds a pairing that is shared or of the target race,
\* the race compared with its case ignored
Kept(i) ==
    LET faction == which(raw[i], units)
    IN  faction = s_all \/ lower(faction) = lower(stdin.race)

\* the k-th position of the set of positions K, counting upwards
Nth(K, k) == CHOOSE i \in K : Cardinality({j \in K : j < i}) = k - 1

\* C3: race_hotkeys is exactly the subsequence of raw at the kept positions:
\* same order, nothing else, duplicates neither removed nor added.
C3_FilterIsSubsequence ==
    Filtered =>
        LET K == {i \in 1..Len(raw) : Kept(i)}
        IN  /\ Len(race_hotkeys) = Cardinality(K)
            /\ \A k \in 1..Len(race_hotkeys) : race_hotkeys[k] = raw[Nth(K, k)]

\* a run whose race was typed with a capital, with a duplicated pairing kept
\* or a pairing of another race dropped before a shared pairing
C3_Witness ==
    /\ Filtered
    /\ stdin.race # lower(stdin.race)
    /\ Len(raw) = 2
    /\ \/ (raw[1] = raw[2] /\ Len(race_hotkeys) = 2 /\ hotkeys_race[1] # s_all)
       \/ (Len(race_hotkeys) = 1 /\ race_hotkeys[1] = raw[2]
           /\ hotkeys_race[2] = s_all)

----------------------------------------------------------------------------
(* GridHotkeys._hotkeys_output                                             *)

\* the call of _hotkeys_output at line 203 has been made
Called == Returned \/ (pc = "error" /\ err = "IndexError")

RefKeys == {reference_grid[i] : i \in 1..Len(reference_grid)}

\* the positions of race_hotkeys whose key, lowercased, is a reference-grid key
ResidentPositions ==
    {i \in 1..Len(race_hotkeys) : lower(KeyOf(race_hotkeys[i])) \in RefKeys}

\* the pairing the k-th output line is made from
Resident(k) == race_hotkeys[Nth(ResidentPositions, k)]

\* the index of a pairing's key in the reference grid
RefIndex(h) == CHOOSE i \in 1..Len(reference_grid) : reference_grid[i] = lower(KeyOf(h))

\* the text before the final '=' with every '=' taken out
Unit(h) == IF HasEq(h) THEN SelectSeq(SubSeq(h, 1, LastEq(h) - 1), LAMBDA c : c # "=")
           ELSE <<>>

\* the key of an output line with the prefix stripped and case ignored
OutKey(line) == lower(SubSeq(KeyOf(line), Len(prefix) + 1, Len(KeyOf(line))))

\* the destination grid with case ignored
LowerGrid == [i \in 1..Len(grid_key) |-> lower(grid_key[i])]

\* C4: _hotkeys_output never gives more lines than there are filtered
\* pairings whose key, lowercased, is in the reference grid; the list it
\* returns has exactly one line for each of them, in input order, and no line
\* for any other pairing.
C4_OneLinePerGridPairing ==
    /\ Called => Len(ret_keys) <= Cardinality(ResidentPositions)
    /\ Returned =>
        /\ Len(ret_keys) = Cardinality(ResidentPositions)
        /\ \A k \in 1..Len(ret_keys) :
               SubSeq(ret_keys[k], 1, LastEq(ret_keys[k]) - 1) = Unit(Resident(k))

\* two filtered pairings: the one with an uppercase key of the grid gives the
\* only line, the other, with a key outside the grid, gives none
C4_Witness ==
    /\ Returned
    /\ Len(race_hotkeys) = 2 /\ Len(ret_keys) = 1
    /\ \E i \in 1..2 :
        /\ ResidentPositions = {i}
        /\ KeyOf(race_hotkeys[i]) # lower(KeyOf(race_hotkeys[i]))
        /\ HasEq(race_hotkeys[3 - i])

\* C5 as stated: with a destination grid of 15 keys, the key of every output
\* line is in the destination grid, at the index its input key has in the
\* reference grid.
C5_SameIndexInBothGrids ==
    (Returned /\ Len(grid_key) = Len(reference_grid)) =>
        \A k \in 1..Len(ret_keys) :
            /\ list_in(OutKey(ret_keys[k]), LowerGrid)
            /\ index(LowerGrid, OutKey(ret_keys[k])) = RefIndex(Resident(k))

\* C5 amended: with a destination grid of 15 keys, the key of every output
\* line is the destination grid's entry at the index the input key has in the
\* reference grid; the first index of that key in the destination grid is
\* that index, or an earlier one exactly when the grid repeats the key there.
C5_KeyIsGridEntryAtRefIndex ==
    (Returned /\ Len(grid_key) = Len(reference_grid)) =>
        /\ Len(ret_keys) = Cardinality(ResidentPositions)
        /\ \A k \in 1..Len(ret_keys) :
            LET i == RefIndex(Resident(k))
                key == OutKey(ret_keys[k])
            IN  /\ key = LowerGrid[i]
                /\ index(LowerGrid, key) <= i
                /\ index(LowerGrid, key) < i
                       <=> \E j \in 1..(i - 1) : LowerGrid[j] = LowerGrid[i]

\* a custom grid of 15 keys and a prefix: a line whose key moved to another
\* letter at the same index, and a line whose key is repeated earlier in the grid
C5_Witness ==
    /\ Returned /\ Len(grid_key) = Len(reference_grid)
    /\ custom_grid # False /\ prefix # <<>>
    /\ \E k \in 1..Len(ret_keys) :
        /\ OutKey(ret_keys[k]) # lower(KeyOf(Resident(k)))
        /\ index(LowerGrid, OutKey(ret_keys[k])) = RefIndex(Resident(k))
    /\ \E k \in 1..Len(ret_keys) :
        index(LowerGrid, OutKey(ret_keys[k])) < RefIndex(Resident(k))

\* the pairings C6 is about: one '=', an uppercase key of the reference grid
UpperGridKey(h) == OneEq(h) /\ KeyOf(h) = upper(KeyOf(h))

\* C6 as stated: with the default grid and no prefix every filtered pairing
\* with an uppercase reference-grid key is emitted unchanged.
C6_DefaultGridIsIdentity ==
    (Returned /\ grid_key = default_grid /\ prefix = <<>>) =>
        \A k \in 1..Len(ret_keys) :
            UpperGridKey(Resident(k)) => ret_keys[k] = Resident(k)

\* C6 amended: with the default grid and no prefix every filtered pairing
\* with an uppercase reference-grid key is emitted unchanged, except that the
\* key Y is emitted as Z: the two grids differ at position 11 only.
C6_IdentityExceptYtoZ ==
    (Returned /\ grid_key = default_grid /\ prefix = <<>>) =>
        /\ Len(ret_keys) = Cardinality(ResidentPositions)
        /\ \A k \in 1..Len(ret_keys) :
            UpperGridKey(Resident(k)) =>
                ret_keys[k] =
                    IF KeyOf(Resident(k)) = <<"Y">>
                    THEN LabelOfCase(Resident(k)) \o <<"=", "Z">>
                    ELSE Resident(k)

\* the default grid, no prefix: a pairing emitted unchanged and one with key Y
C6_Witness ==
    /\ Returned /\ grid_key = default_grid /\ prefix = <<>>
    /\ custom_grid = False
    /\ Len(ret_keys) = 2
    /\ UpperGridKey(Resident(1)) /\ UpperGridKey(Resident(2))
    /\ KeyOf(Resident(1)) = <<"Y">>
    /\ ret_keys[2] = Resident(2)

----------------------------------------------------------------------------
(* Errors, and find_file                                                   *)

\* C7: a run given a raw pairing without '=' does not complete.
C7_MalformedIsFatal ==
    pc = "done" => \A i \in 1..Len(raw) : HasEq(raw[i])

\* C8: a run given a custom grid whose length is not 15 does not complete.
C8_InvalidGridIsFatal ==
    pc = "done" => (custom_grid = False \/ Len(custom_grid) = Len(reference_grid))

\* C9: a run that has aborted has not created the output file.
C9_NoFileOnAbort ==
    pc = "error" => ~output_file.exists

\* the entries of data/ whose name holds both keywords
AllKeywords(i) == str_in(s_raw, data_dir[i].name) /\ str_in(s_json, data_dir[i].name)

\* C10: the file find_file returns holds every keyword in its name, and is the
\* first such file of the listing.
C10_FirstFileWithAllKeywords ==
    pc \notin {"main", "read_json"} =>
        \A i \in 1..Len(data_dir) :
            /\ json_file = data_dir[i].name => AllKeywords(i)
            /\ (AllKeywords(i) /\ \A j \in 1..(i - 1) : ~AllKeywords(j))
                   => json_file = data_dir[i].name

====
